---- MODULE Spec2Model ----
(***************************************************************************)
(* Model of instascan's Scanner: the lifecycle state machine built with    *)
(* javascript-state-machine (stopped / started / active / inactive), the   *)
(* camera it drives, the page-visibility handler and the ActiveScan frame  *)
(* loop with its refractory de-duplication.                                *)
(*                                                                         *)
(* Every handler of the program is one action.  A handler runs to          *)
(* completion (single-threaded event loop); the asynchronous points are    *)
(* the camera acquisition callback, the requestAnimationFrame tick and the *)
(* setTimeout callbacks, each of which is an action of its own.            *)
(***************************************************************************)
EXTENDS Integers, Sequences, FiniteSets, TLC

\* ---- bounds of the model ------------------------------------------------
MaxDeferred == 1       \* pending setTimeout(activate) callbacks
MaxStale == 1          \* pending animation-frame callbacks of stopped sessions
MaxEmitQ == 1          \* pending deferred 'scan' emissions
MaxScanPeriod == 2     \* scanPeriod option is drawn from 1..MaxScanPeriod
MaxRefractory == 2     \* refractoryPeriod option is drawn from 1..MaxRefractory
MaxTicks == 4          \* ticks of a session that are counted

\* ---- values -------------------------------------------------------------
Null == "null"                       \* JS null / undefined / ''
Undefined == "undefined"             \* a field never assigned (lastResult)
Cameras == {"camA", "camB"}
Payloads == {"P", "Q"}
None == [name |-> "none"]            \* fsm.transition === null
NoScan == [active |-> FALSE]         \* this._scan === null
DefaultScanPeriod == 1   \* opts.scanPeriod || 1
NoTimer == -1                        \* no timer pending / no time recorded

VARIABLES
  current,        \* this._fsm.current
  transition,     \* this._fsm.transition: None or the suspended transition
  _camera,        \* this._camera
  _scan,          \* this._scan: NoScan or the running ActiveScan
  videoSrc,       \* this.video.src: Null or the camera whose stream it shows
  videoReady,     \* this.video.videoWidth is non-zero
  imageBuffer,    \* this.analyzer.imageBuffer is set
  stream,         \* camera -> its _stream field is set (a live stream)
  orphan,         \* camera -> a stream of it was overwritten without stop
  acq,            \* camera.start calls whose callback has not run yet
  vis,            \* Visibility.state()
  backgroundScan, \* option
  scanPeriod,     \* option
  refractoryPeriod, \* option
  deferred,       \* pending setTimeout(() => activate, 0) callbacks
  staleTicks,     \* pending animation-frame callbacks of stopped sessions
  staleTimers,    \* a refractory timer of a stopped session is pending
  emitQ,          \* pending setTimeout(() => emit('scan'), 0) callbacks
  op,             \* the handler that ran in the last step
  before,         \* this._fsm.current when the last step began
  emitted,        \* events emitted by the last step, in order
  calls,          \* camera start/stop calls made by the last step, in order
  thrown,         \* the last step ended by an uncaught exception
  analyzed,       \* the last step called analyzer.analyze
  decoded,        \* the result the analyzer handed over in the last step
  delivered,      \* the payload of the 'scan' event emitted by the last step
  lastAI,         \* the last 'active'/'inactive' event emitted before this step
  sinceEmit,      \* time since the running session last accepted a result
  sincePayload,   \* payload -> time since the running session last accepted it
  lastPayload,    \* the payload the running session accepted last
  priorPayload,   \* the payload it had accepted before that one
  offered,        \* what the decoder reads in the frame of the last step's attempt
  ticks,          \* animation-frame callbacks the running session has run
  attempts        \* calls of analyzer.analyze the running session has made

vars == <<current, transition, _camera, _scan, videoSrc, videoReady,
          imageBuffer, stream, orphan, acq, vis, backgroundScan, scanPeriod,
          refractoryPeriod, deferred, staleTicks, staleTimers, emitQ, op, before,
          emitted, calls, thrown, analyzed, decoded, delivered, lastAI,
          sinceEmit, sincePayload, lastPayload, priorPayload, offered, ticks,
          attempts>>

\* ---- the scanner's mutable state as one record --------------------------
\* The handlers below are functions from such a record to such a record;
\* the per-step observations start empty in every step.
Now ==
  [current |-> current, transition |-> transition, camera |-> _camera,
   scan |-> _scan, videoSrc |-> videoSrc, videoReady |-> videoReady,
   stream |-> stream, orphan |-> orphan, acq |-> acq,
   staleTicks |-> staleTicks, staleTimers |-> staleTimers, vis |-> vis,
   emitted |-> <<>>, calls |-> <<>>, thrown |-> FALSE]

Emit(s, e) == [s EXCEPT !.emitted = Append(@, e)]

Throw(s) == [s EXCEPT !.thrown = TRUE]

\* ---- Camera -------------------------------------------------------------
\* camera.start(callback): the acquisition is outstanding until its callback runs.
CameraStart(s, c) ==
  [s EXCEPT !.acq = Append(@, c), !.calls = Append(@, <<"start", c>>)]

\* camera.stop(): stops the tracks of _stream, if any, and forgets it.
CameraStop(s, c) ==
  [s EXCEPT !.calls = Append(@, <<"stop", c>>),
            !.stream = [@ EXCEPT ![c] = FALSE]]

\* the acquisition succeeded: this._stream = stream (an earlier stream that
\* was not stopped is no longer referenced by anything).
StreamAcquired(s, c) ==
  [s EXCEPT !.stream = [@ EXCEPT ![c] = TRUE],
            !.orphan = [@ EXCEPT ![c] = @ \/ s.stream[c]]]

\* ---- ActiveScan ---------------------------------------------------------
NewActiveScan ==
  [active |-> FALSE, frameCount |-> 0, lastResult |-> Undefined,
   refractoryTimeout |-> NoTimer]

\* ---- Scanner._disableScan -----------------------------------------------
\* _disableScan that neither stops nor drops the session
DisableScan_KeepsScan(s) ==
  LET s1 == [s EXCEPT !.videoSrc = Null, !.videoReady = FALSE]
  IN  IF s1.camera # Null THEN CameraStop(s1, s1.camera) ELSE s1

DisableScan(s) ==
  LET s1 == [s EXCEPT !.videoSrc = Null, !.videoReady = FALSE]
      s2 == IF s1.scan # NoScan
            THEN [s1 EXCEPT !.scan = NoScan,
                            !.staleTicks = @ + 1,
                            !.staleTimers = @ \/ (s1.scan.refractoryTimeout # NoTimer)]
            ELSE s1
  IN  IF s2.camera # Null THEN CameraStop(s2, s2.camera) ELSE s2

\* ---- Scanner._enableScan ------------------------------------------------
\* Returns the new state and what the callback returned to the state machine.
EnableScan(s, camera) ==
  LET s1 == [s EXCEPT !.camera = IF camera # Null THEN camera ELSE @]
  IN  IF s1.camera = Null
      THEN [s |-> s1, r |-> "false"]
      ELSE [s |-> CameraStart(s1, s1.camera), r |-> "async"]

\* ---- the state machine --------------------------------------------------
From(name) ==
  CASE name = "start" -> {"stopped"}
    [] name = "stop" -> {"started", "active", "inactive"}
    [] name = "activate" -> {"started", "inactive"}
    [] name = "deactivate" -> {"started", "active"}

To(name) ==
  CASE name = "start" -> "started"
    [] name = "stop" -> "stopped"
    [] name = "activate" -> "active"
    [] name = "deactivate" -> "inactive"

\* fsm.can(name)
Can(s, name) == s.transition = None /\ s.current \in From(name)

\* onleaveactive that releases the scan but reports nothing
OnLeaveActive_Silent(s) == DisableScan(s)

\* onleaveactive
OnLeaveActive(s) == Emit(DisableScan(s), "inactive")

\* onleavestate without the veto of a hidden page
OnLeaveState_NoVeto(s, to, camera) ==
  IF to = "active" THEN EnableScan(s, camera) ELSE [s |-> s, r |-> "none"]

\* onleavestate with the veto applied after _enableScan
OnLeaveState_LateVeto(s, to, camera) ==
  IF to = "active"
  THEN IF s.vis # "visible" /\ ~backgroundScan
       THEN [s |-> EnableScan(s, camera).s, r |-> "false"]
       ELSE EnableScan(s, camera)
  ELSE [s |-> s, r |-> "none"]

\* onleavestate
OnLeaveState(s, to, camera) ==
  IF to = "active"
  THEN IF s.vis # "visible" /\ ~backgroundScan
       THEN [s |-> s, r |-> "false"]
       ELSE EnableScan(s, camera)
  ELSE [s |-> s, r |-> "none"]

\* the library's leaveState: the callback of the state left, then onleavestate
LeaveState(s, from, to, camera) ==
  LET s1 == IF from = "active" THEN OnLeaveActive(s) ELSE s
  IN  OnLeaveState(s1, to, camera)

RECURSIVE FsmEvent(_, _, _)
RECURSIVE Transition(_)

\* fsm.transition(): commits the transition and runs the enter callbacks
\* (onstarted fires activate, onactive emits 'active'); a call with no
\* transition set is a TypeError.
Transition(s) ==
  IF s.transition = None THEN Throw(s)
  ELSE LET t == s.transition
           s1 == [s EXCEPT !.transition = None, !.current = t.to]
       IN  CASE t.to = "started" -> FsmEvent(s1, "activate", t.camera)
             [] t.to = "active" -> Emit(s1, "active")
             [] OTHER -> s1

\* fsm.<name>(camera): an event fired on the state machine
FsmEvent(s, name, camera) ==
  IF s.transition # None \/ s.current \notin From(name)
  THEN Throw(s)
  ELSE LET t == [name |-> name, from |-> s.current, to |-> To(name),
                 camera |-> camera]
           lv == LeaveState([s EXCEPT !.transition = t], s.current, To(name), camera)
       IN  CASE lv.r = "false" -> [lv.s EXCEPT !.transition = None]
             [] lv.r = "async" -> lv.s
             [] OTHER -> Transition(lv.s)

\* fsm.transition.cancel()
Cancel(s) ==
  IF s.transition = None THEN Throw(s) ELSE [s EXCEPT !.transition = None]

\* two statements in sequence: the second does not run when the first threw
StopThenStart(s, camera) ==
  LET s1 == FsmEvent(s, "stop", Null)
  IN  IF s1.thrown THEN s1 ELSE FsmEvent(s1, "start", camera)

\* ---- writing a handler's result back ------------------------------------
\* what is recorded about a session that has accepted nothing yet
NoPayloadTimes == [p \in Payloads |-> NoTimer]

NextAI(prev, evs) ==
  LET ai == SelectSeq(evs, LAMBDA e : e \in {"active", "inactive"})
  IN  IF ai = <<>> THEN prev ELSE ai[Len(ai)]

Commit(s, name) ==
  /\ current' = s.current
  /\ transition' = s.transition
  /\ _camera' = s.camera
  /\ _scan' = s.scan
  /\ videoSrc' = s.videoSrc
  /\ videoReady' = s.videoReady
  /\ stream' = s.stream
  /\ orphan' = s.orphan
  /\ acq' = s.acq
  /\ staleTicks' = s.staleTicks
  /\ staleTimers' = s.staleTimers
  /\ emitted' = s.emitted
  /\ calls' = s.calls
  /\ thrown' = s.thrown
  /\ op' = name
  /\ before' = current
  /\ vis' = s.vis
  /\ analyzed' = FALSE
  /\ decoded' = Null
  /\ delivered' = Null
  /\ lastAI' = NextAI(lastAI, emitted)
  /\ sinceEmit' = IF s.scan = NoScan THEN NoTimer ELSE sinceEmit
  /\ sincePayload' = IF s.scan = NoScan THEN NoPayloadTimes ELSE sincePayload
  /\ lastPayload' = IF s.scan = NoScan THEN Null ELSE lastPayload
  /\ priorPayload' = IF s.scan = NoScan THEN Null ELSE priorPayload
  /\ ticks' = IF s.scan = NoScan THEN 0 ELSE ticks
  /\ attempts' = IF s.scan = NoScan THEN 0 ELSE attempts
  /\ offered' = Null
  /\ staleTicks' <= MaxStale
  /\ UNCHANGED <<imageBuffer, emitQ, backgroundScan, scanPeriod, refractoryPeriod>>

\* ---- Scanner.start(camera) ----------------------------------------------
StartBody(s, camera) ==
  IF Can(s, "start") THEN FsmEvent(s, "start", camera)
  ELSE StopThenStart(s, camera)

Start ==
  \E camera \in Cameras \cup {Null} :
    /\ Commit(StartBody(Now, camera), "start")
    /\ UNCHANGED deferred

\* ---- Scanner.stop() -----------------------------------------------------
\* stop() that fires the event without asking can('stop')
StopBody_Unguarded(s) == FsmEvent(s, "stop", Null)

StopBody(s) ==
  IF Can(s, "stop") THEN FsmEvent(s, "stop", Null) ELSE s

Stop ==
  /\ Commit(StopBody(Now), "stop")
  /\ UNCHANGED deferred

\* ---- Scanner set camera -------------------------------------------------
SetCameraBody(s, camera) ==
  IF s.current \in {"stopped", "inactive"}
  THEN [s EXCEPT !.camera = camera]
  ELSE StopThenStart(s, camera)

SetCamera ==
  \E camera \in Cameras :
    /\ Commit(SetCameraBody(Now, camera), "setCamera")
    /\ UNCHANGED deferred

\* ---- Visibility.change handler ------------------------------------------
\* 'visible' defers an activate attempt; anything else deactivates at once
\* unless backgroundScan is set.
VisibilityBody(s, state) ==
  LET s1 == [s EXCEPT !.vis = state]
  IN  IF state # "visible" /\ ~backgroundScan /\ Can(s1, "deactivate")
      THEN FsmEvent(s1, "deactivate", Null)
      ELSE s1

VisibilityChange ==
  \E state \in {"visible", "hidden"} \ {vis} :
    /\ Commit(VisibilityBody(Now, state), "visibility")
    /\ deferred' = IF state = "visible" THEN deferred + 1 ELSE deferred
    /\ deferred' <= MaxDeferred

\* the deferred callback without the can('activate') test
DeferredBody_NoCan(s) == FsmEvent(s, "activate", Null)

\* the callback deferred by the 'visible' branch
DeferredBody(s) ==
  IF Can(s, "activate") THEN FsmEvent(s, "activate", Null) ELSE s

DeferredActivate ==
  /\ deferred > 0
  /\ Commit(DeferredBody(Now), "deferred")
  /\ deferred' = deferred - 1

\* ---- the callback given to camera.start ---------------------------------
Remove(q, i) == [k \in 1..(Len(q) - 1) |-> IF k < i THEN q[k] ELSE q[k + 1]]

\* err is null: show the stream, create and start the session, commit
StartedBody(s, c) ==
  Transition([s EXCEPT !.videoSrc = c, !.videoReady = FALSE,
                       !.scan = [NewActiveScan EXCEPT !.active = TRUE]])

AcquireSucceeds ==
  \E i \in DOMAIN acq :
    /\ Commit(StartedBody(StreamAcquired([Now EXCEPT !.acq = Remove(acq, i)], acq[i]),
                          acq[i]), "acquired")
    /\ UNCHANGED deferred

\* the error branch that reports the error and leaves the transition suspended
FailedBody_NoCancel(s) == Emit(s, "error")

\* err is set: cancel the suspended transition and report the error
FailedBody(s) ==
  LET s1 == Cancel(s)
  IN  IF s1.thrown THEN s1 ELSE Emit(s1, "error")

AcquireFails ==
  \E i \in DOMAIN acq :
    /\ Commit(FailedBody([Now EXCEPT !.acq = Remove(acq, i)]), "failed")
    /\ UNCHANGED deferred

\* ---- steps that are not handlers of the state machine -------------------
lifecycle == <<current, transition, _camera, stream, orphan, acq, vis,
               deferred, backgroundScan, scanPeriod, refractoryPeriod>>

\* no lifecycle event, camera call or exception in this step
Quiet(name) ==
  /\ op' = name
  /\ before' = current
  /\ calls' = <<>>
  /\ thrown' = FALSE
  /\ lastAI' = NextAI(lastAI, emitted)
  /\ UNCHANGED lifecycle

\* the video element has received a frame of the stream: videoWidth is set
VideoLoaded ==
  /\ videoSrc # Null
  /\ ~videoReady
  /\ videoReady' = TRUE
  /\ Quiet("loaded")
  /\ emitted' = <<>> /\ analyzed' = FALSE /\ decoded' = Null /\ delivered' = Null
  /\ offered' = Null
  /\ UNCHANGED <<_scan, videoSrc, imageBuffer, staleTicks, staleTimers, emitQ,
                 sinceEmit, sincePayload, lastPayload, priorPayload, ticks, attempts>>

\* ---- ActiveScan.scan ----------------------------------------------------
\* the callback with the timer restarted before the comparison with lastResult
AnalyzeCallback_TimerFirst(sc, result) ==
  IF result = sc.lastResult
  THEN [sc |-> [sc EXCEPT !.refractoryTimeout = refractoryPeriod], emit |-> <<>>]
  ELSE [sc |-> [sc EXCEPT !.refractoryTimeout = refractoryPeriod,
                          !.lastResult = result],
        emit |-> <<result>>]

\* AnalyzeCallback without the comparison with lastResult
AnalyzeCallback_NoCompare(sc, result) ==
  [sc |-> [sc EXCEPT !.refractoryTimeout = refractoryPeriod,
                     !.lastResult = result],
   emit |-> <<result>>]

\* the callback given to analyzer.analyze: the session afterwards and the
\* emission it defers, if any
AnalyzeCallback(sc, result) ==
  IF result = sc.lastResult
  THEN [sc |-> sc, emit |-> <<>>]
  ELSE [sc |-> [sc EXCEPT !.refractoryTimeout = refractoryPeriod,
                          !.lastResult = result],
        emit |-> <<result>>]

\* this.frameCount after `++this.frameCount !== this.scanPeriod`
Counted(sc) ==
  IF sc.frameCount + 1 # scanPeriod
  THEN [sc EXCEPT !.frameCount = @ + 1]
  ELSE [sc EXCEPT !.frameCount = 0]

\* every animation frame taken for a scan attempt
Attempt_EveryTick(sc) == TRUE

\* the tick is a scan attempt
Attempt(sc) == sc.frameCount + 1 = scanPeriod

\* Analyzer.analyze: what it hands to the callback when the decoder's answer
\* is `result` (Null: nothing handed over)
Analyze(result) ==
  IF ~videoReady THEN Null
  ELSE IF ~imageBuffer THEN Null
  ELSE result

\* ActiveScan.stop
ScanStop(sc) == [sc EXCEPT !.active = FALSE]

\* a session after _disableScan has stopped and dropped it; scan() reads
\* nothing but `active` of such a session
StoppedScan == ScanStop([NewActiveScan EXCEPT !.active = TRUE])

\* scan() without the check of `active`
Scan_IgnoresActive(sc, result) ==
  LET got == IF Attempt(sc) THEN Analyze(result) ELSE Null
      cb == IF got # Null THEN AnalyzeCallback(Counted(sc), got)
            ELSE [sc |-> Counted(sc), emit |-> <<>>]
  IN  [sc |-> cb.sc, again |-> TRUE, analyzed |-> Attempt(sc), got |-> got,
       emit |-> cb.emit,
       buffer |-> (imageBuffer \/ (Attempt(sc) /\ videoReady))]

\* ActiveScan.scan when the decoder would read `result` in the current frame:
\* the session afterwards, whether another animation frame was requested,
\* whether the analyzer was called, what it handed over, the deferred emission
\* and analyzer.imageBuffer afterwards
Scan(sc, result) ==
  IF ~sc.active
  THEN [sc |-> sc, again |-> FALSE, analyzed |-> FALSE, got |-> Null,
        emit |-> <<>>, buffer |-> imageBuffer]
  ELSE LET got == IF Attempt(sc) THEN Analyze(result) ELSE Null
           cb == IF got # Null THEN AnalyzeCallback(Counted(sc), got)
                 ELSE [sc |-> Counted(sc), emit |-> <<>>]
       IN  [sc |-> cb.sc, again |-> TRUE, analyzed |-> Attempt(sc), got |-> got,
            emit |-> cb.emit,
            buffer |-> (imageBuffer \/ (Attempt(sc) /\ videoReady))]

\* an animation-frame callback of the running session
RafTick ==
  /\ _scan # NoScan
  /\ \E result \in Payloads \cup {Null} :
       LET r == Scan(_scan, result)
           counted == ticks < MaxTicks
       IN  /\ r.again
           /\ _scan' = r.sc
           /\ analyzed' = r.analyzed
           /\ decoded' = r.got
           /\ offered' = IF r.analyzed /\ videoReady THEN result ELSE Null
           /\ imageBuffer' = r.buffer
           /\ emitQ' = emitQ \o r.emit
           /\ sinceEmit' = IF r.emit # <<>> THEN 0 ELSE sinceEmit
           /\ sincePayload' = IF r.emit # <<>>
                              THEN [sincePayload EXCEPT ![r.emit[1]] = 0]
                              ELSE sincePayload
           /\ lastPayload' = IF r.emit # <<>> THEN r.emit[1] ELSE lastPayload
           /\ priorPayload' = IF r.emit # <<>> THEN lastPayload ELSE priorPayload
           /\ ticks' = IF counted THEN ticks + 1 ELSE ticks
           /\ attempts' = IF counted /\ r.analyzed THEN attempts + 1 ELSE attempts
  /\ Len(emitQ') <= MaxEmitQ
  /\ Quiet("tick")
  /\ emitted' = <<>> /\ delivered' = Null
  /\ UNCHANGED <<videoSrc, videoReady, staleTicks, staleTimers>>

\* an animation-frame callback of a session that was stopped
StaleTick ==
  /\ staleTicks > 0
  /\ \E result \in Payloads \cup {Null} :
       LET r == Scan(StoppedScan, result)
       IN  /\ staleTicks' = IF r.again THEN staleTicks ELSE staleTicks - 1
           /\ analyzed' = r.analyzed
           /\ decoded' = r.got
           /\ imageBuffer' = r.buffer
           /\ emitQ' = emitQ \o r.emit
  /\ Len(emitQ') <= MaxEmitQ
  /\ Quiet("staleTick")
  /\ emitted' = <<>> /\ delivered' = Null /\ offered' = Null
  /\ UNCHANGED <<_scan, videoSrc, videoReady, staleTimers, sinceEmit,
                 sincePayload, lastPayload, priorPayload, ticks, attempts>>

\* setTimeout(() => emit('scan', result, image), 0)
EmitScan ==
  /\ emitQ # <<>>
  /\ emitQ' = Tail(emitQ)
  /\ emitted' = <<"scan">>
  /\ delivered' = Head(emitQ)
  /\ Quiet("emit")
  /\ analyzed' = FALSE /\ decoded' = Null
  /\ offered' = Null
  /\ UNCHANGED <<_scan, videoSrc, videoReady, imageBuffer, staleTicks,
                 staleTimers, sinceEmit, sincePayload, lastPayload,
                 priorPayload, ticks, attempts>>

\* setTimeout(() => this.lastResult = null, refractoryPeriod) of the running session
RefractoryExpires ==
  /\ _scan # NoScan
  /\ _scan.refractoryTimeout = 0
  /\ _scan' = [_scan EXCEPT !.lastResult = Null, !.refractoryTimeout = NoTimer]
  /\ Quiet("expired")
  /\ emitted' = <<>> /\ analyzed' = FALSE /\ decoded' = Null /\ delivered' = Null
  /\ offered' = Null
  /\ UNCHANGED <<videoSrc, videoReady, imageBuffer, staleTicks, staleTimers,
                 emitQ, sinceEmit, sincePayload, lastPayload, priorPayload, ticks, attempts>>

\* the same timer of a session that was stopped in the meantime
StaleTimerFires ==
  /\ staleTimers
  /\ staleTimers' = FALSE
  /\ Quiet("staleTimer")
  /\ emitted' = <<>> /\ analyzed' = FALSE /\ decoded' = Null /\ delivered' = Null
  /\ offered' = Null
  /\ UNCHANGED <<_scan, videoSrc, videoReady, imageBuffer, staleTicks, emitQ,
                 sinceEmit, sincePayload, lastPayload, priorPayload, ticks, attempts>>

\* one unit of time passes: zero-delay callbacks and due timers run first
TimeAdvance ==
  /\ deferred = 0
  /\ emitQ = <<>>
  /\ _scan # NoScan
  /\ _scan.refractoryTimeout # 0
  /\ _scan' = IF _scan.refractoryTimeout = NoTimer THEN _scan
              ELSE [_scan EXCEPT !.refractoryTimeout = @ - 1]
  /\ sinceEmit # NoTimer
  /\ sinceEmit <= refractoryPeriod
  /\ sinceEmit' = sinceEmit + 1
  /\ sincePayload' = [p \in Payloads |->
                        IF sincePayload[p] = NoTimer \/ sincePayload[p] > refractoryPeriod
                        THEN sincePayload[p] ELSE sincePayload[p] + 1]
  /\ offered' = Null
  /\ Quiet("time")
  /\ emitted' = <<>> /\ analyzed' = FALSE /\ decoded' = Null /\ delivered' = Null
  /\ UNCHANGED <<videoSrc, videoReady, imageBuffer, staleTicks, staleTimers, emitQ,
                 lastPayload, priorPayload, ticks, attempts>>

Init ==
  /\ current = "stopped"
  /\ transition = None
  /\ _camera = Null
  /\ _scan = NoScan
  /\ videoSrc = Null
  /\ videoReady = FALSE
  /\ imageBuffer = FALSE
  /\ stream = [c \in Cameras |-> FALSE]
  /\ orphan = [c \in Cameras |-> FALSE]
  /\ acq = <<>>
  /\ vis \in {"visible", "hidden"}
  /\ backgroundScan \in BOOLEAN
  /\ scanPeriod \in {DefaultScanPeriod} \cup 1..MaxScanPeriod
  /\ refractoryPeriod \in 1..MaxRefractory
  /\ deferred = 0
  /\ staleTicks = 0
  /\ staleTimers = FALSE
  /\ emitQ = <<>>
  /\ op = "new"
  /\ before = "stopped"
  /\ emitted = <<"inactive">>
  /\ calls = <<>>
  /\ thrown = FALSE
  /\ analyzed = FALSE
  /\ decoded = Null
  /\ delivered = Null
  /\ lastAI = Null
  /\ sinceEmit = NoTimer
  /\ sincePayload = NoPayloadTimes
  /\ lastPayload = Null
  /\ priorPayload = Null
  /\ offered = Null
  /\ ticks = 0
  /\ attempts = 0

\* the handlers of the lifecycle: calls, visibility changes, camera callbacks
Lifecycle ==
  \/ Start
  \/ Stop
  \/ SetCamera
  \/ VisibilityChange
  \/ DeferredActivate
  \/ AcquireSucceeds
  \/ AcquireFails
  \/ StaleTick

\* the frame loop of the running session and its timers
FrameLoop ==
  \/ VideoLoaded
  \/ RafTick
  \/ EmitScan
  \/ RefractoryExpires
  \/ StaleTimerFires
  \/ TimeAdvance

Next == Lifecycle \/ FrameLoop

\* a scanner with background scanning enabled
InitScan == Init /\ backgroundScan

\* The lifecycle on its own.  No step of FrameLoop writes the state machine,
\* the cameras, the visibility or the events and camera calls of a handler
\* (Quiet leaves them alone), so the frame loop is left unscheduled here.
Spec == Init /\ [][Lifecycle]_vars

\* The whole program, for a scanner with background scanning enabled.
SpecScan == InitScan /\ [][Next]_vars

\* the handlers that run on a page that stays visible
Session ==
  \/ Start
  \/ Stop
  \/ SetCamera
  \/ AcquireSucceeds
  \/ AcquireFails
  \/ StaleTick
  \/ FrameLoop

InitSession == InitScan /\ vis = "visible"

\* The sessions of a scanner on a page that stays visible.  With
\* backgroundScan set the visibility handler does nothing but defer activate
\* attempts, and a session they start is started by AcquireSucceeds like any
\* other.
SpecSession == InitSession /\ [][Session]_vars

\* ======================================================================
\* Properties
\* ======================================================================

\* the 'active' and 'inactive' events among evs, in order
ActiveInactive(evs) == SelectSeq(evs, LAMBDA e : e \in {"active", "inactive"})

\* no two neighbours of q are equal
Alternates(q) == \A i \in 1..(Len(q) - 1) : q[i] # q[i + 1]

Count(q, e) == Cardinality({i \in DOMAIN q : q[i] = e})

\* C1: 'active' and 'inactive' events strictly alternate after the initial
\* 'inactive' of the constructor: the events of every step, put after the
\* last such event emitted before it, never repeat a neighbour; a step that
\* leaves Active emits 'inactive' exactly once and a step that enters Active
\* emits 'active' exactly once.
C1_Alternation ==
  /\ Alternates((IF lastAI = Null THEN <<>> ELSE <<lastAI>>) \o ActiveInactive(emitted))
  /\ (lastAI = Null => op = "new" /\ emitted = <<"inactive">>)
  /\ (before = "active" /\ current # "active" => Count(emitted, "inactive") = 1)
  /\ (before # "active" /\ current = "active" => Count(emitted, "active") = 1)
  /\ (current = "active" <=>
        NextAI(lastAI, emitted) = "active")

\* an 'inactive' event that follows an 'active' one
C1_Witness ==
  /\ lastAI = "active"
  /\ emitted = <<"inactive">>
  /\ op = "visibility"

\* C2: start(camera) works in every reachable state: when it returns it has
\* not thrown, the state machine is in Started, no capture session is left
\* and the only camera acquisition outstanding is the one this call issued
\* for the given or last-known camera.
C2_StartFromAnyState ==
  op = "start" =>
    /\ ~thrown
    /\ current = "started"
    /\ _scan = NoScan
    /\ \/ acq = <<>>
       \/ /\ Len(acq) = 1
          /\ calls # <<>>
          /\ calls[Len(calls)] = <<"start", acq[1]>>
          /\ _camera = acq[1]

\* C3: stop() called in Started, Active or Inactive leaves the state machine
\* in Stopped with no transition suspended and no acquisition outstanding,
\* so that nothing can produce 'active' or a session before the next start().
C3_StopStops ==
  (op = "stop" /\ before \in {"started", "active", "inactive"}) =>
    /\ current = "stopped"
    /\ transition = None
    /\ acq = <<>>
    /\ _scan = NoScan

\* C4: stop() while Stopped changes nothing: it emits no event, calls neither
\* camera start nor stop, throws nothing and leaves every field as it was.
C4_StopWhileStoppedNoOp ==
  [][(op' = "stop" /\ current = "stopped") =>
       /\ emitted' = <<>>
       /\ calls' = <<>>
       /\ ~thrown'
       /\ UNCHANGED <<current, transition, _camera, _scan, videoSrc, videoReady,
                      imageBuffer, stream, orphan, acq, vis, deferred,
                      staleTicks, staleTimers, emitQ>>]_vars

\* stop() has run while the state machine was Stopped
C4_Witness == op = "stop" /\ before = "stopped" /\ _camera # Null

\* the camera stop calls among cs, in order
StopCalls(cs) == SelectSeq(cs, LAMBDA c : c[1] = "stop")

StartCalls(cs) == SelectSeq(cs, LAMBDA c : c[1] = "start")

\* C5: camera start and stop are paired per activation: a step that enters
\* Active completes exactly one outstanding start, and a step that leaves
\* Active calls stop exactly once, on the camera whose stream the session
\* was showing.
C5_StartStopPaired ==
  [][/\ (current # "active" /\ current' = "active") =>
          (Len(acq) = 1 /\ acq' = <<>> /\ videoSrc' = acq[1])
     /\ (current = "active" /\ current' # "active") =>
          StopCalls(calls') = <<<<"stop", videoSrc>>>>]_vars

\* the cameras that hold a stream that was not stopped
Live == {c \in Cameras : stream[c] \/ orphan[c]}

\* C6: at most one camera is live, and camera start is never called while a
\* camera started earlier has not been stopped.
C6_StopBeforeReacquire ==
  /\ Cardinality(Live) <= 1
  /\ (StartCalls(calls) # <<>> => Live = {})

\* C7: whenever the scanner is Active, the stream shown to the running
\* session was acquired from the camera the scanner records.
C7_SessionUsesRecordedCamera ==
  current = "active" => videoSrc = _camera

\* C8: the page goes hidden while Active: without backgroundScan the scanner
\* is Inactive afterwards, has emitted exactly one 'inactive', dropped the
\* session and stopped the camera (no stream is live); with backgroundScan
\* nothing is emitted or called and the state stays Active.
C8_HiddenWhileActive ==
  (op = "visibility" /\ vis = "hidden" /\ before = "active") =>
    IF backgroundScan
    THEN current = "active" /\ emitted = <<>> /\ calls = <<>> /\ _scan # NoScan
    ELSE /\ current = "inactive"
         /\ emitted = <<"inactive">>
         /\ _scan = NoScan
         /\ Len(StopCalls(calls)) = 1
         /\ Live = {}

\* C9: a failed acquisition emits exactly one 'error', cancels the suspended
\* transition (the state is what it was, Started or Inactive, and nothing is
\* pending), creates no session, emits no 'active', and start(), stop() and
\* activate are accepted afterwards.
C9_FailureCancels ==
  op = "failed" =>
    /\ emitted = <<"error">>
    /\ ~thrown
    /\ transition = None
    /\ current = before
    /\ current \in {"started", "inactive"}
    /\ _scan = NoScan
    /\ calls = <<>>
    /\ Can(Now, "stop")
    /\ Can(Now, "activate")
    /\ \A camera \in Cameras \cup {Null} : ~StartBody(Now, camera).thrown

\* an acquisition started from Inactive has failed
C9_Witness == op = "failed" /\ current = "inactive" /\ emitted = <<"error">>

\* the running session holds a payload as lastResult
Suppressing == _scan # NoScan /\ _scan.lastResult \in Payloads

\* C10: within one session, with T the time the last payload was emitted:
\* until T + refractoryPeriod lastResult is that payload and its timer is due
\* at T + refractoryPeriod; after T + refractoryPeriod lastResult is cleared;
\* a decode equal to lastResult emits nothing and leaves the timer alone; any
\* other decode (the same payload after the clearing included) is emitted,
\* becomes lastResult and restarts the timer.
C10_RefractoryWindow ==
  /\ [](Suppressing =>
          /\ sinceEmit \in 0..refractoryPeriod
          /\ _scan.refractoryTimeout = refractoryPeriod - sinceEmit)
  /\ []((_scan # NoScan /\ sinceEmit \in 0..(refractoryPeriod - 1)) => Suppressing)
  /\ []((_scan # NoScan /\ sinceEmit > refractoryPeriod) =>
          (_scan.lastResult = Null /\ _scan.refractoryTimeout = NoTimer))
  /\ [][(op' = "tick" /\ decoded' # Null) =>
          IF decoded' = _scan.lastResult
          THEN /\ emitQ' = emitQ
               /\ _scan'.lastResult = _scan.lastResult
               /\ _scan'.refractoryTimeout = _scan.refractoryTimeout
               /\ sinceEmit' = sinceEmit
          ELSE /\ emitQ' = Append(emitQ, decoded')
               /\ _scan'.lastResult = decoded'
               /\ _scan'.refractoryTimeout = refractoryPeriod
               /\ sinceEmit' = 0]_vars

\* a payload decoded again inside its refractory window was not emitted
C10_Witness ==
  /\ op = "tick"
  /\ decoded \in Payloads
  /\ decoded = _scan.lastResult
  /\ sinceEmit \in 1..(refractoryPeriod - 1)
  /\ emitQ = <<>>

\* the tick of the last step accepted a payload and deferred its emission
Accepted == op = "tick" /\ decoded \in Payloads /\ lastPayload = decoded /\ sinceEmit = 0

\* C11 as stated: within one session, two emissions of the same payload are
\* never closer together than refractoryPeriod, whatever other payloads were
\* decoded in between.
C11_PerPayloadMinimum ==
  [][(op' = "tick" /\ emitQ' # emitQ) =>
       (sincePayload[decoded'] = NoTimer
          \/ sincePayload[decoded'] >= refractoryPeriod)]_vars

\* C11: within one session, two emissions of the same payload with no other
\* payload emitted in between are never closer together than refractoryPeriod.
C11_SuccessiveMinimum ==
  [][(op' = "tick" /\ emitQ' # emitQ /\ decoded' = lastPayload) =>
       (sinceEmit >= refractoryPeriod
          /\ sincePayload[decoded'] >= refractoryPeriod)]_vars

\* a payload was emitted twice in succession
C11_Witness == Accepted /\ emitQ # <<>> /\ priorPayload = decoded

\* C12: a running session with scanPeriod N that has run k animation-frame
\* callbacks has called the analyzer floor(k / N) times: on every N-th tick
\* and on no other; with the default scanPeriod every tick is an attempt.
C12_AttemptsPerTicks ==
  /\ _scan # NoScan =>
        /\ attempts = ticks \div scanPeriod
        /\ ticks < MaxTicks => _scan.frameCount = ticks % scanPeriod
  /\ (op = "tick" /\ ticks < MaxTicks) => (analyzed <=> ticks % scanPeriod = 0)
  /\ (op = "tick" /\ scanPeriod = DefaultScanPeriod) => analyzed

\* three ticks of a session that scans every second frame made one attempt
C12_Witness ==
  /\ op = "tick" /\ scanPeriod = 2 /\ ticks = 3 /\ attempts = 1 /\ ~analyzed

\* C13: an animation-frame callback of a stopped session calls neither the
\* analyzer nor the decoder, requests no further frame and leaves the analyzer,
\* the queue of emissions and any session started since as they were; stopping
\* a session twice leaves it as stopping it once does.
C13_StoppedSessionIdle ==
  /\ [][op' = "staleTick" =>
          /\ ~analyzed'
          /\ decoded' = Null
          /\ staleTicks' = staleTicks - 1
          /\ emitQ' = emitQ
          /\ imageBuffer' = imageBuffer
          /\ _scan' = _scan]_vars
  /\ [](_scan # NoScan =>
          /\ ~ScanStop(_scan).active
          /\ ScanStop(ScanStop(_scan)) = ScanStop(_scan)
          /\ ~Scan(ScanStop(_scan), Null).again)

\* a frame requested by a stopped session fired after a new session had started
C13_Witness == op = "staleTick" /\ _scan # NoScan /\ _scan.active /\ ~analyzed

\* C14: no 'scan' event is delivered between an 'inactive' event and the next
\* 'active' event: stopping a session leaves none of its emissions pending.
C14_NoScanAfterInactive == op = "emit" => lastAI = "active"

\* C15: a scan attempt made with a usable frame hands the frame to the decoder,
\* the first such attempt included: what the decoder reads in the frame reaches
\* the session's callback, and a payload in the frame of the first tick of a
\* session that scans every frame is queued for emission by that tick.
C15_FirstFrameDecoded ==
  /\ (op = "tick" /\ analyzed /\ offered \in Payloads) => decoded = offered
  /\ (op = "tick" /\ scanPeriod = 1 /\ ticks = 1 /\ offered \in Payloads) =>
        emitQ = <<offered>>

\* C16: a change to 'visible' changes nothing at once and defers one callback;
\* that callback attempts activate only if the state is then Started or
\* Inactive with no transition pending, and otherwise changes nothing, emits
\* nothing and throws nothing; a change to 'hidden' deactivates only when
\* backgroundScan is false and deactivate is legal, and is otherwise ignored
\* in the same way.
C16_VisibilityDeferred ==
  [][/\ (op' = "visibility" /\ vis' = "visible") =>
          /\ deferred' = deferred + 1
          /\ ~thrown' /\ emitted' = <<>> /\ calls' = <<>>
          /\ UNCHANGED <<current, transition, _camera, _scan, acq>>
     /\ (op' = "deferred") =>
          /\ deferred' = deferred - 1
          /\ ~thrown' /\ emitted' = <<>>
          /\ current' = current
          /\ IF Can(Now, "activate")
             THEN \/ transition' = None /\ calls' = <<>> /\ acq' = acq
                  \/ /\ transition'.name = "activate"
                     /\ Len(StartCalls(calls')) = 1
             ELSE /\ calls' = <<>>
                  /\ UNCHANGED <<transition, _camera, _scan, acq>>
     /\ (op' = "visibility" /\ vis' = "hidden") =>
          /\ ~thrown'
          /\ deferred' = deferred
          /\ IF ~backgroundScan /\ Can(Now, "deactivate")
             THEN current' = "inactive" /\ transition' = None /\ _scan' = NoScan
             ELSE /\ emitted' = <<>> /\ calls' = <<>>
                  /\ UNCHANGED <<current, transition, _camera, _scan, acq>>]_vars

\* the deferred callback ran while an acquisition was outstanding and did nothing
C16_Witness ==
  op = "deferred" /\ transition # None /\ calls = <<>> /\ Len(acq) = 1

\* C17 as stated: the state is Started only while the activation attempt that
\* start() makes is unresolved; once it is resolved the state is Active or
\* Inactive.
C17_StartedTransient == current = "started" => transition # None

\* C17: start() enters Started and attempts activate at once; a veto (page not
\* visible, backgroundScan off) or a missing camera resolves the attempt within
\* start() and leaves the state Started with nothing pending; otherwise the
\* attempt is suspended on the camera, and its success makes the state Active
\* while its failure leaves it Started with nothing pending.
C17_StartedUntilResolved ==
  /\ (op = "start" /\ ~thrown) =>
        /\ current = "started"
        /\ IF (vis # "visible" /\ ~backgroundScan) \/ _camera = Null
           THEN transition = None /\ StartCalls(calls) = <<>>
           ELSE transition # None /\ transition.name = "activate"
                /\ Len(StartCalls(calls)) = 1
  /\ (op = "acquired" /\ before = "started") =>
        current = "active" /\ transition = None
  /\ (op = "failed" /\ before = "started") =>
        current = "started" /\ transition = None

\* start() on a hidden page without backgroundScan was vetoed
C17_Witness ==
  /\ op = "start" /\ ~thrown /\ vis = "hidden" /\ ~backgroundScan
  /\ current = "started" /\ transition = None

\* the step from the current state is a handler that attempts activate
AttemptsActivate ==
  \/ op' = "deferred" /\ Can(Now, "activate")
  \/ op' = "start" /\ ~thrown'
  \/ op' = "setCamera" /\ current \in {"started", "active"} /\ ~thrown'

\* C18: an activate attempt made while the page is not visible and
\* backgroundScan is false is vetoed before anything happens: camera.start is
\* not called, no session exists, neither 'active' nor 'error' is emitted, the
\* recorded camera is not replaced, no transition is pending and the state is
\* the one the attempt was made from.
C18_HiddenVeto ==
  [][(AttemptsActivate /\ vis' # "visible" /\ ~backgroundScan) =>
       /\ StartCalls(calls') = <<>>
       /\ acq' = acq
       /\ _scan' = NoScan
       /\ _camera' = _camera
       /\ \A i \in 1..Len(emitted') : emitted'[i] \notin {"active", "error"}
       /\ transition' = None
       /\ current' = IF op' = "deferred" THEN current ELSE "started"]_vars

\* the deferred callback attempted activate from Inactive on a page hidden
\* again, with a camera recorded, and was vetoed
C18_Witness ==
  /\ op = "deferred" /\ before = "inactive" /\ current = "inactive"
  /\ vis = "hidden" /\ ~backgroundScan
  /\ transition = None /\ _camera # Null /\ calls = <<>>

\* C19: between callbacks a session exists, and is running, exactly when the
\* state is Active; a session comes into being only in the step in which an
\* acquisition succeeds and the transition to Active commits; a stopped
\* session is not running, so at most one session runs; every step that
\* leaves Active stops the session and drops it.
C19_SessionIffActive ==
  /\ [](/\ _scan # NoScan <=> current = "active"
        /\ _scan # NoScan => _scan.active
        /\ ~StoppedScan.active)
  /\ [][/\ (_scan = NoScan /\ _scan' # NoScan) =>
             (op' = "acquired" /\ current' = "active" /\ transition' = None)
        /\ (current = "active" /\ op' \in {"start", "stop", "setCamera", "visibility"}
               /\ ~thrown' /\ (op' = "visibility" => current' # "active")) =>
             (staleTicks' = staleTicks + 1
                /\ "inactive" = emitted'[1]
                /\ _scan' = NoScan
                /\ current' # "active")]_vars

\* a hidden page has taken the scanner out of Active and the session is gone
C19_Witness ==
  /\ op = "visibility" /\ before = "active" /\ current = "inactive"
  /\ _scan = NoScan /\ staleTicks = 1

\* C20: with backgroundScan false the scanner is never Active, with a session
\* running and a camera live, while the page is hidden.
C20_NeverActiveHidden ==
  (~backgroundScan /\ vis # "visible") =>
    ~(current = "active" /\ _scan # NoScan /\ Live # {})

====
